---- MODULE Spec2Model ----
(***************************************************************************)
(* Model of jina/executors/encoders/nlp/transformer.py: the transformer    *)
(* text encoder (BaseTransformerEncoder) and its two backend variants      *)
(* (TransformerTFEncoder, TransformerTorchEncoder).                        *)
(*                                                                         *)
(* One encoder object is modelled at a time, together with the storage     *)
(* directory (model_abspath) that outlives it.  Constructing a new object  *)
(* replaces the previous one; the directory is kept.  encode and           *)
(* __getstate__ are invoked on objects whose post_init has returned: a     *)
(* post_init that raises is a failed construction.  Calls on one object    *)
(* do not overlap: while the frame of an encode call is live (its locals   *)
(* and its result are in `call`), no other operation starts.               *)
(*                                                                         *)
(* Embeddings have hidden dimension 1, so a vector is one integer.         *)
(***************************************************************************)
EXTENDS Integers, Sequences, FiniteSets, TLC

(* ------------------------------ bounds --------------------------------- *)
MaxLen == 2        \* largest max_length tried
MaxStrLen == 3     \* longest input string, in tokens (longer than MaxLen: truncation)
MaxBatch == 2      \* largest batch handed to encode

(* ------------------------- static dispatch tables ---------------------- *)
\* the registry with one more key: a name the check at line 60 lets through
tokenizer_dict_open ==
    [n \in {"bert-base-uncased", "openai-gpt", "gpt2", "xlnet-base-cased",
            "xlm-mlm-enfr-1024", "distilbert-base-cased", "roberta-base",
            "xlm-roberta-base", "flaubert-base-cased", "camembert-base", "ctrl",
            "unknown-model"} |->
       CASE n = "bert-base-uncased"     -> "BertTokenizer"
         [] n = "openai-gpt"            -> "OpenAIGPTTokenizer"
         [] n = "gpt2"                  -> "GPT2Tokenizer"
         [] n = "xlnet-base-cased"      -> "XLNetTokenizer"
         [] n = "xlm-mlm-enfr-1024"     -> "XLMTokenizer"
         [] n = "distilbert-base-cased" -> "DistilBertTokenizer"
         [] n = "roberta-base"          -> "RobertaTokenizer"
         [] n = "xlm-roberta-base"      -> "XLMRobertaTokenizer"
         [] n = "flaubert-base-cased"   -> "FlaubertTokenizer"
         [] n = "camembert-base"        -> "CamembertTokenizer"
         [] n = "ctrl"                  -> "CTRLTokenizer"
         [] n = "unknown-model"         -> "BertTokenizer"]

tokenizer_dict ==
    [n \in {"bert-base-uncased", "openai-gpt", "gpt2", "xlnet-base-cased",
            "xlm-mlm-enfr-1024", "distilbert-base-cased", "roberta-base",
            "xlm-roberta-base", "flaubert-base-cased", "camembert-base", "ctrl"} |->
       CASE n = "bert-base-uncased"     -> "BertTokenizer"
         [] n = "openai-gpt"            -> "OpenAIGPTTokenizer"
         [] n = "gpt2"                  -> "GPT2Tokenizer"
         [] n = "xlnet-base-cased"      -> "XLNetTokenizer"
         [] n = "xlm-mlm-enfr-1024"     -> "XLMTokenizer"
         [] n = "distilbert-base-cased" -> "DistilBertTokenizer"
         [] n = "roberta-base"          -> "RobertaTokenizer"
         [] n = "xlm-roberta-base"      -> "XLMRobertaTokenizer"
         [] n = "flaubert-base-cased"   -> "FlaubertTokenizer"
         [] n = "camembert-base"        -> "CamembertTokenizer"
         [] n = "ctrl"                  -> "CTRLTokenizer"]

tf_model_dict ==
    [n \in {"bert-base-uncased", "openai-gpt", "gpt2", "xlnet-base-cased",
            "xlm-mlm-enfr-1024", "distilbert-base-cased", "roberta-base",
            "xlm-roberta-base", "camembert-base", "ctrl"} |->
       CASE n = "bert-base-uncased"     -> "TFBertModel"
         [] n = "openai-gpt"            -> "TFOpenAIGPTModel"
         [] n = "gpt2"                  -> "TFGPT2Model"
         [] n = "xlnet-base-cased"      -> "TFXLNetModel"
         [] n = "xlm-mlm-enfr-1024"     -> "TFXLMModel"
         [] n = "distilbert-base-cased" -> "TFDistilBertModel"
         [] n = "roberta-base"          -> "TFRobertaModel"
         [] n = "xlm-roberta-base"      -> "TFXLMRobertaModel"
         [] n = "camembert-base"        -> "TFCamembertModel"
         [] n = "ctrl"                  -> "TFCTRLModel"]

torch_model_dict ==
    [n \in {"bert-base-uncased", "openai-gpt", "gpt2", "xlnet-base-cased",
            "xlm-mlm-enfr-1024", "distilbert-base-cased", "roberta-base",
            "xlm-roberta-base", "flaubert-base-cased", "camembert-base", "ctrl"} |->
       CASE n = "bert-base-uncased"     -> "BertModel"
         [] n = "openai-gpt"            -> "OpenAIGPTModel"
         [] n = "gpt2"                  -> "GPT2Model"
         [] n = "xlnet-base-cased"      -> "XLNetModel"
         [] n = "xlm-mlm-enfr-1024"     -> "XLMModel"
         [] n = "distilbert-base-cased" -> "DistilBertModel"
         [] n = "roberta-base"          -> "RobertaModel"
         [] n = "xlm-roberta-base"      -> "XLMRobertaModel"
         [] n = "flaubert-base-cased"   -> "FlaubertModel"
         [] n = "camembert-base"        -> "CamembertModel"
         [] n = "ctrl"                  -> "CTRLModel"]

model_dict(v) == IF v = "TransformerTFEncoder" THEN tf_model_dict ELSE torch_model_dict

(* --------------------------- inputs tried ------------------------------ *)
Variants == {"TransformerTFEncoder", "TransformerTorchEncoder"}
ModelNameInputs == DOMAIN tokenizer_dict \cup {"unknown-model"}
PoolingInputs == {"cls", "mean", "max", "min", "sum"}
Vocab == {5}       \* ids of real (non-pad) tokens

Strings == UNION {[1..n -> Vocab] : n \in 0..MaxStrLen}
Batches == UNION {[1..b -> Strings] : b \in 1..MaxBatch}

(* ------------------------------ state ---------------------------------- *)
VARIABLES
    variant,            \* the class of the object
    phase,              \* "none" | "constructed" | "ready" | "failed"
    model_name, pooling_strategy, max_length, raw_model_path,
    on_gpu,
    tmp_model_path,     \* self._tmp_model_path
    cls_pos,            \* self.cls_pos, "unset" while the attribute is missing
    tokenizer,          \* self.tokenizer
    model,              \* self.model
    tensor_func,        \* self._tensor_func
    sess_func,          \* self._sess_func
    fs,                 \* the storage directory at model_abspath
    call                \* what the last operation did and returned

vars == <<variant, phase, model_name, pooling_strategy, max_length, raw_model_path,
          on_gpu, tmp_model_path, cls_pos, tokenizer, model, tensor_func, sess_func,
          fs, call>>

NoTokenizer == [cls |-> "none", src |-> "none", padding_side |-> "none", pad_token |-> "none"]
NoModel == [cls |-> "none", src |-> "none", resized |-> FALSE]

NoCall(op) ==
    [op |-> op, status |-> "ok", error |-> "none", events |-> <<>>,
     data |-> <<>>, token_ids |-> <<>>, mask |-> <<>>, reduce_mask |-> <<>>,
     seq_output |-> <<>>, extra_output |-> <<>>, output |-> <<>>,
     grad_disabled |-> FALSE, created_dir |-> FALSE]

model_abspath == "workspace/" \o raw_model_path

\* The state after __init__ (lines 18-39): the class and the constructor's
\* arguments are the inputs; model_path keeps its default, so every object
\* shares one storage directory, which does not exist yet.
Init ==
    /\ variant \in Variants
    /\ phase = "constructed"
    /\ model_name \in ModelNameInputs
    /\ pooling_strategy \in PoolingInputs
    /\ max_length \in 1..MaxLen
    /\ raw_model_path = "transformer"
    /\ on_gpu \in {g \in BOOLEAN : g => variant = "TransformerTorchEncoder"}
    /\ tmp_model_path = "unset"
    /\ cls_pos = "unset"
    /\ tokenizer = NoTokenizer
    /\ model = NoModel
    /\ tensor_func = "unset"
    /\ sess_func = "unset"
    /\ fs = [exists |-> FALSE, model |-> FALSE, tokenizer |-> FALSE]
    /\ call = NoCall("construct")

(* ---------------------------- __init__ --------------------------------- *)
\* A new object of the same class is constructed from the same arguments (a
\* restart on the same configuration); the storage directory is kept.
Construct ==
    /\ phase \in {"ready", "failed"}
    /\ call.op # "encode"
    /\ phase' = "constructed"
    /\ model_name' = model_name
    /\ pooling_strategy' = pooling_strategy
    /\ max_length' = max_length
    /\ raw_model_path' = raw_model_path
    /\ tmp_model_path' = "unset"
    /\ cls_pos' = "unset"
    /\ tokenizer' = NoTokenizer
    /\ model' = NoModel
    /\ tensor_func' = "unset"
    /\ sess_func' = "unset"
    /\ call' = NoCall("construct")
    /\ UNCHANGED <<variant, on_gpu, fs>>

(* ---------------------------- post_init -------------------------------- *)
InTokenizerDict(n) == n \in DOMAIN tokenizer_dict

\* the pretrained identity even when the storage directory exists
TmpModelPath_ignore_dir(n, exists) == n
\* line 64-66: the storage directory wins whenever it exists
TmpModelPath(n, exists) == IF exists THEN model_abspath ELSE n

\* 'head' as the default of every other identity
ClsPosOf_default_head(n) ==
    IF n \in {"xlnet-base-cased"} THEN "tail" ELSE "head"
\* lines 71-76; ('xlnet-base-cased') is a plain string, so the second test is
\* a substring test: of the names that pass line 60 only xlnet-base-cased
\* itself is a substring of it.
ClsPosOf(n) ==
    IF n \in {"bert-base-uncased", "distilbert-base-cased", "roberta-base",
              "xlm-roberta-base", "flaubert-base-cased", "camembert-base"}
    THEN "head"
    ELSE IF n \in {"xlnet-base-cased"} THEN "tail" ELSE "unset"

NeedsPadToken(n) == n \in {"openai-gpt", "gpt2", "xlm-mlm-enfr-1024", "xlnet-base-cased"}

InitTokenizer(n, path) ==
    [cls |-> tokenizer_dict[n], src |-> path, padding_side |-> "right",
     pad_token |-> IF NeedsPadToken(n) THEN "<PAD>" ELSE "default"]

InitModel(v, n, path) ==
    [cls |-> model_dict(v)[n], src |-> path, resized |-> NeedsPadToken(n)]

TensorFuncOf(v) == IF v = "TransformerTFEncoder" THEN "tf.constant" ELSE "torch.tensor"
SessFuncOf(v) == IF v = "TransformerTFEncoder" THEN "tf.GradientTape" ELSE "torch.no_grad"

PostInit ==
    /\ phase = "constructed"
    /\ LET path == TmpModelPath(model_name, fs.exists) IN
       IF ~InTokenizerDict(model_name)
       THEN \* line 60-62: raise ValueError, nothing assigned
            /\ phase' = "failed"
            /\ call' = [NoCall("post_init") EXCEPT !.status = "error", !.error = "ValueError"]
            /\ UNCHANGED <<tmp_model_path, cls_pos, tokenizer, model, tensor_func, sess_func>>
       ELSE /\ tmp_model_path' = path
            /\ tokenizer' = InitTokenizer(model_name, path)
            /\ cls_pos' = ClsPosOf(model_name)
            /\ IF model_name \notin DOMAIN model_dict(variant)
               THEN \* model_dict[self.model_name] raises KeyError
                    /\ phase' = "failed"
                    /\ call' = [NoCall("post_init") EXCEPT
                                   !.status = "error", !.error = "KeyError",
                                   !.events = <<"tokenizer.from_pretrained">>]
                    /\ UNCHANGED <<model, tensor_func, sess_func>>
               ELSE /\ phase' = "ready"
                    /\ model' = InitModel(variant, model_name, path)
                    /\ tensor_func' = TensorFuncOf(variant)
                    /\ sess_func' = SessFuncOf(variant)
                    /\ call' = [NoCall("post_init") EXCEPT
                                   !.events = <<"tokenizer.from_pretrained",
                                                "model.from_pretrained">>]
    /\ UNCHANGED <<variant, model_name, pooling_strategy, max_length, raw_model_path,
                   on_gpu, fs>>

(* --------------------------- __getstate__ ------------------------------ *)
SavePretrained(dir) == [exists |-> TRUE, model |-> TRUE, tokenizer |-> TRUE]

GetState ==
    /\ phase = "ready"
    /\ call.op # "encode"
    /\ fs' = SavePretrained(fs)
    /\ call' = [NoCall("getstate") EXCEPT !.created_dir = ~fs.exists]
    /\ UNCHANGED <<variant, phase, model_name, pooling_strategy, max_length,
                   raw_model_path, on_gpu, tmp_model_path, cls_pos, tokenizer, model,
                   tensor_func, sess_func>>

(* ------------------------------ encode --------------------------------- *)
\* self.tokenizer.pad_token_id: the id the tokenizer pads with.  The '<PAD>'
\* token set at line 79 is a token added to the vocabulary.
PadTokenId(tok) == IF tok.pad_token = "<PAD>" THEN 9 ELSE 0

\* self.tokenizer.encode(s, pad_to_max_length=True, max_length=L) with
\* padding_side 'right': truncate to L, then pad on the right to exactly L.
TokenizerEncode(tok, s, L) ==
    [j \in 1..L |-> IF j <= Len(s) THEN s[j] ELSE PadTokenId(tok)]

\* the mask derived from id 0 instead of the tokenizer's pad token id
MaskIds_zero_pad(tok, token_ids) ==
    [j \in 1..Len(token_ids) |-> IF token_ids[j] = 0 THEN 0 ELSE 1]
\* line 94
MaskIds(tok, token_ids) ==
    [j \in 1..Len(token_ids) |-> IF token_ids[j] = PadTokenId(tok) THEN 0 ELSE 1]

\* array2tensor (lines 141-142, 206-210): the backend's tensor constructor,
\* moved to the accelerator by the torch variant when on_gpu.
array2tensor(array) ==
    [kind |-> tensor_func, device |-> IF on_gpu THEN "cuda" ELSE "cpu", rows |-> array]

\* tensor2array (lines 144-145, 212-215): back on the host, then .numpy()
tensor2array(tensor) == tensor.rows

\* The backend's forward pass (self.model(...), line 100): one hidden value
\* per token position, a function of the token id and the position.
SeqOutput(ids) ==
    [b \in 1..Len(ids) |-> [j \in 1..Len(ids[b]) |-> 10 * ids[b][j] + j]]

RECURSIVE SumSeq(_)
SumSeq(s) == IF s = <<>> THEN 0 ELSE Head(s) + SumSeq(Tail(s))

\* The BERT and RoBERTa model classes (and the classes derived from RoBERTa)
\* return a pooler output as the second element of the forward result.
HasPoolerOutput(cls) ==
    cls \in {"BertModel", "RobertaModel", "XLMRobertaModel", "CamembertModel",
             "TFBertModel", "TFRobertaModel", "TFXLMRobertaModel", "TFCamembertModel"}

PoolerOutput(ids) == [b \in 1..Len(ids) |-> 1000 + SumSeq(ids[b])]

ExtraOutput(m, ids) ==
    IF HasPoolerOutput(m.cls) THEN <<array2tensor(PoolerOutput(ids))>> ELSE <<>>

\* whether the context manager self._sess_func() switches gradient recording off
GradDisabled(sess) == sess = "torch.no_grad"

(* the reduction helpers imported at line 8 *)
Unmasked(maskrow) == {j \in 1..Len(maskrow) : maskrow[j] = 1}
EmptyRow(mask_2d) == \E b \in 1..Len(mask_2d) : Unmasked(mask_2d[b]) = {}
SetMax(S) == CHOOSE x \in S : \A y \in S : y <= x
SetMin(S) == CHOOSE x \in S : \A y \in S : x <= y
RECURSIVE SumSet(_, _)
SumSet(row, S) == IF S = {} THEN 0
                  ELSE LET j == SetMax(S) IN row[j] + SumSet(row, S \ {j})

Failed(e) == [err |-> e, val |-> <<>>]
Value(v) == [err |-> "none", val |-> v]

reduce_mean(data, mask_2d) ==
    IF EmptyRow(mask_2d) THEN Failed("EmptySequenceError")
    ELSE Value([b \in 1..Len(data) |->
                  SumSet(data[b], Unmasked(mask_2d[b])) \div Cardinality(Unmasked(mask_2d[b]))])

reduce_max(data, mask_2d) ==
    IF EmptyRow(mask_2d) THEN Failed("EmptySequenceError")
    ELSE Value([b \in 1..Len(data) |->
                  SetMax({data[b][j] : j \in Unmasked(mask_2d[b])})])

reduce_min(data, mask_2d) ==
    IF EmptyRow(mask_2d) THEN Failed("EmptySequenceError")
    ELSE Value([b \in 1..Len(data) |->
                  SetMin({data[b][j] : j \in Unmasked(mask_2d[b])})])

reduce_cls(data, mask_2d, pos) ==
    IF pos = "head" THEN Value([b \in 1..Len(data) |-> data[b][1]])
    ELSE IF EmptyRow(mask_2d) THEN Failed("EmptySequenceError")
    ELSE Value([b \in 1..Len(data) |-> data[b][SetMax(Unmasked(mask_2d[b]))]])

\* lines 103-116: the pooling branch
UsesPoolerOutput(n) == n \in {"bert-base-uncased", "roberta-base"}

\* an unrecognised strategy falling back to the mean
Pooling_default_mean(strategy, n, seq, mask, extra) ==
    IF strategy = "cls"
    THEN IF n \in {"bert-base-uncased", "roberta-base"}
         THEN Value(tensor2array(extra[1]))
         ELSE IF cls_pos = "unset" THEN Failed("AttributeError")
              ELSE reduce_cls(seq, mask, cls_pos)
    ELSE IF strategy = "max" THEN reduce_max(seq, mask)
    ELSE IF strategy = "min" THEN reduce_min(seq, mask)
    ELSE reduce_mean(seq, mask)

\* the failure of the mean swallowed, the rows that have a mean returned
Pooling_partial_mean(strategy, n, seq, mask, extra) ==
    IF strategy = "cls"
    THEN IF n \in {"bert-base-uncased", "roberta-base"}
         THEN Value(tensor2array(extra[1]))
         ELSE IF cls_pos = "unset" THEN Failed("AttributeError")
              ELSE reduce_cls(seq, mask, cls_pos)
    ELSE IF strategy = "mean"
         THEN LET ok == SelectSeq([b \in 1..Len(seq) |-> b],
                                  LAMBDA b : Unmasked(mask[b]) # {})
              IN  Value([k \in 1..Len(ok) |->
                           SumSet(seq[ok[k]], Unmasked(mask[ok[k]]))
                              \div Cardinality(Unmasked(mask[ok[k]]))])
    ELSE IF strategy = "max" THEN reduce_max(seq, mask)
    ELSE IF strategy = "min" THEN reduce_min(seq, mask)
    ELSE Failed("NotImplementedError")

Pooling(strategy, n, seq, mask, extra) ==
    IF strategy = "cls"
    THEN IF UsesPoolerOutput(n)
         THEN IF extra = <<>> THEN Failed("IndexError") ELSE Value(tensor2array(extra[1]))
         ELSE IF cls_pos = "unset" THEN Failed("AttributeError")
              ELSE reduce_cls(seq, mask, cls_pos)
    ELSE IF strategy = "mean" THEN reduce_mean(seq, mask)
    ELSE IF strategy = "max" THEN reduce_max(seq, mask)
    ELSE IF strategy = "min" THEN reduce_min(seq, mask)
    ELSE Failed("NotImplementedError")

\* lines 89-117: one encode call on the batch `data`
EncodeCall(data) ==
    LET token_ids_batch == [i \in 1..Len(data) |->
                               TokenizerEncode(tokenizer, data[i], max_length)]
        mask_ids_batch  == [i \in 1..Len(data) |-> MaskIds(tokenizer, token_ids_batch[i])]
        ids_tensor      == array2tensor(token_ids_batch)
        mask_tensor     == array2tensor(mask_ids_batch)
        seq_output      == array2tensor(SeqOutput(ids_tensor.rows))
        extra_output    == ExtraOutput(model, ids_tensor.rows)
        mask_array      == tensor2array(mask_tensor)
        seq_array       == tensor2array(seq_output)
        r == Pooling(pooling_strategy, model_name, seq_array, mask_array, extra_output)
    IN  [NoCall("encode") EXCEPT
            !.status = IF r.err = "none" THEN "ok" ELSE "error",
            !.error = r.err,
            !.events = <<"tokenize", "infer">>,
            !.data = data,
            !.token_ids = ids_tensor.rows,
            !.mask = mask_tensor.rows,
            !.reduce_mask = mask_array,
            !.seq_output = seq_array,
            !.extra_output = [k \in 1..Len(extra_output) |-> tensor2array(extra_output[k])],
            !.output = r.val,
            !.grad_disabled = GradDisabled(sess_func)]

\* an encode that re-configures the tokenizer's padding on every call
EncodeStep_sets_padding(data) ==
    /\ phase = "ready"
    /\ call.op # "encode"
    /\ call' = EncodeCall(data)
    /\ tokenizer' = [tokenizer EXCEPT !.padding_side = "left"]
    /\ UNCHANGED <<variant, phase, model_name, pooling_strategy, max_length,
                   raw_model_path, on_gpu, tmp_model_path, cls_pos, model,
                   tensor_func, sess_func, fs>>

EncodeStep(data) ==
    /\ phase = "ready"
    /\ call.op # "encode"
    /\ call' = EncodeCall(data)
    /\ UNCHANGED <<variant, phase, model_name, pooling_strategy, max_length,
                   raw_model_path, on_gpu, tmp_model_path, cls_pos, tokenizer, model,
                   tensor_func, sess_func, fs>>

Encode == \E data \in Batches : EncodeStep(data)

\* line 117, or the exception leaving encode: the caller has the result and
\* the frame with its locals is gone.
EncodeReturn ==
    /\ call.op = "encode"
    /\ call' = NoCall("return")
    /\ UNCHANGED <<variant, phase, model_name, pooling_strategy, max_length,
                   raw_model_path, on_gpu, tmp_model_path, cls_pos, tokenizer, model,
                   tensor_func, sess_func, fs>>

Next == Construct \/ PostInit \/ GetState \/ Encode \/ EncodeReturn

Spec == Init /\ [][Next]_vars

(* ============================== claims ================================= *)
SupportedNames ==
    {"bert-base-uncased", "openai-gpt", "gpt2", "xlnet-base-cased",
     "xlm-mlm-enfr-1024", "distilbert-base-cased", "roberta-base",
     "xlm-roberta-base", "flaubert-base-cased", "camembert-base", "ctrl"}
RecognizedPooling == {"cls", "mean", "max", "min"}
NoClsPosition == {"openai-gpt", "gpt2", "xlm-mlm-enfr-1024", "ctrl"}
Persistent == <<model_name, pooling_strategy, max_length, raw_model_path, cls_pos,
                tokenizer, model>>
AllZero(row) == \A j \in 1..Len(row) : row[j] = 0

\* C1: for a model_name outside the 11 registered identities post_init fails
\* with the unsupported-model error (ValueError) before a tokenizer is
\* constructed or a model loaded, and no tokenization or inference is ever
\* performed by such an object.
C1_UnsupportedModelFailsFirst ==
    model_name \notin SupportedNames =>
        /\ phase # "ready"
        /\ tokenizer = NoTokenizer
        /\ model = NoModel
        /\ call.events = <<>>
        /\ call.op # "encode"
        /\ call.op = "post_init" => (call.status = "error" /\ call.error = "ValueError")

C1_Witness ==
    /\ model_name = "unknown-model"
    /\ phase = "failed"
    /\ call.op = "post_init"
    /\ call.error = "ValueError"

\* C2: with a pooling_strategy other than cls, mean, max, min every encode call
\* fails with the unsupported-pooling error (NotImplementedError) and returns
\* no embedding batch, whatever the batch and the model.
C2_UnsupportedPoolingFails ==
    (call.op = "encode" /\ pooling_strategy \notin RecognizedPooling) =>
        /\ call.status = "error"
        /\ call.error = "NotImplementedError"
        /\ call.output = <<>>

C2_Witness ==
    /\ call.op = "encode"
    /\ pooling_strategy = "sum"
    /\ Len(call.data) = 2
    /\ call.error = "NotImplementedError"

\* C3 (as claimed): with pooling 'cls' encode returns the backend's pooled
\* output whenever the inference result supplies one, and the reduce_cls
\* extraction at the registered position otherwise.
C3_PooledOutputWheneverSupplied ==
    (call.op = "encode" /\ pooling_strategy = "cls") =>
        IF call.extra_output # <<>>
        THEN call.status = "ok" /\ call.output = call.extra_output[1]
        ELSE cls_pos # "unset" =>
                [err |-> call.error, val |-> call.output]
                    = reduce_cls(call.seq_output, call.mask, cls_pos)

\* C4: once the tokenizer is initialised cls_pos is 'head' for exactly the six
\* BERT-like identities, 'tail' for exactly xlnet-base-cased and unset for
\* openai-gpt, gpt2, xlm-mlm-enfr-1024 and ctrl; for those four an encode call
\* with pooling 'cls' fails and returns no embedding batch.
C4_ClsPositionTable ==
    /\ tokenizer # NoTokenizer =>
          /\ cls_pos = "head" <=> model_name \in
                {"bert-base-uncased", "distilbert-base-cased", "roberta-base",
                 "xlm-roberta-base", "flaubert-base-cased", "camembert-base"}
          /\ cls_pos = "tail" <=> model_name = "xlnet-base-cased"
          /\ cls_pos = "unset" <=> model_name \in NoClsPosition
    /\ (call.op = "encode" /\ pooling_strategy = "cls" /\ model_name \in NoClsPosition) =>
          (call.status = "error" /\ call.output = <<>>)

C4_Witness ==
    /\ call.op = "encode"
    /\ pooling_strategy = "cls"
    /\ model_name = "ctrl"
    /\ cls_pos = "unset"
    /\ call.status = "error"

C6_MaskMatchesPadding ==
    call.op = "encode" =>
        /\ Len(call.token_ids) = Len(call.data)
        /\ Len(call.mask) = Len(call.data)
        /\ call.reduce_mask = call.mask
        /\ \A i \in 1..Len(call.data) :
              /\ Len(call.token_ids[i]) = max_length
              /\ Len(call.mask[i]) = max_length
              /\ \A j \in 1..max_length :
                    /\ call.mask[i][j] \in {0, 1}
                    /\ call.mask[i][j] = 1
                          <=> call.token_ids[i][j] # PadTokenId(tokenizer)
                    /\ j <= Len(call.data[i]) => call.token_ids[i][j] = call.data[i][j]
                    /\ j > Len(call.data[i]) => call.token_ids[i][j] = PadTokenId(tokenizer)

C6_Witness ==
    /\ call.op = "encode"
    /\ tokenizer.pad_token = "<PAD>"
    /\ Len(call.data) = 2
    /\ Len(call.data[1]) < max_length
    /\ Len(call.data[2]) > max_length
    /\ call.mask[1][max_length] = 0
    /\ call.mask[2][max_length] = 1

C8_PostInitCompletesInBothVariants ==
    (call.op = "post_init" /\ model_name \in SupportedNames) => phase = "ready"

\* C9: an encode call, returning or failing, leaves model_name,
\* pooling_strategy, max_length, raw_model_path, cls_pos, the tokenizer and the
\* model as they were; only the constructor and post_init write them.
C9_EncodeKeepsPersistentState ==
    [][ /\ call'.op = "encode" => Persistent' = Persistent
        /\ Persistent' # Persistent => call'.op \in {"construct", "post_init"}
      ]_vars

C9_Witness ==
    /\ call.op = "encode"
    /\ call.status = "error"
    /\ tokenizer = InitTokenizer(model_name, tmp_model_path)
    /\ model = InitModel(variant, model_name, tmp_model_path)

\* C10 (as claimed): the inference call of encode runs with gradient
\* recording disabled, in the TF variant as in the Torch variant.
C10_InferenceWithoutGradients ==
    (call.op = "encode" /\ call.events # <<>>) => call.grad_disabled
====
